---- MODULE Spec2Model ----
(***************************************************************************)
(* Model of src/function_worker_map.rs: FunctionWorkerMap, a BTreeMap from *)
(* a function name to a Vec of FunctionWorkerConfig, with its two          *)
(* operations insert_worker_config and get_least_busy_worker.              *)
(*                                                                         *)
(* A u32 is kept at its full width.  TLC's integers stop at 2^31 - 1, so a *)
(* u32 is the pair <<hi, lo>> of its two 16-bit halves; the subtraction    *)
(* of the comparator and its `as i32` cast are computed on the halves.     *)
(***************************************************************************)
EXTENDS Integers, Sequences, FiniteSets, TLC

(* ------------------------------ bounds --------------------------------- *)

\* Number of insert_worker_config calls in one behaviour.
MaxInserts == 3

\* Length in bytes of the longest string given to static_name_from_str.
MaxStrLen == 65

(* ------------------------------ u32 / i32 ------------------------------ *)

\* 2^16: a u32 is hi * Half + lo with hi, lo in 0 .. Half - 1.
Half == 65536

\* 2^15: a u32 whose high half reaches SignBit is negative when read as i32.
SignBit == 32768

\* The u32 with the value hi * 2^16 + lo.
u32(hi, lo) == <<hi, lo>>

\* a < b on u32.
u32_lt(a, b) == a[1] < b[1] \/ (a[1] = b[1] /\ a[2] < b[2])

\* a <= b on u32.
u32_le(a, b) == a = b \/ u32_lt(a, b)

\* a - b on u32 as a release build computes it: modulo 2^32.
wrapping_sub(a, b) ==
    LET borrow == IF a[2] < b[2] THEN 1 ELSE 0
    IN  <<(a[1] - b[1] - borrow) % Half, (a[2] - b[2]) % Half>>

\* a - b overflows (a debug build panics: "attempt to subtract with overflow").
sub_overflows(a, b) == u32_lt(a, b)

\* `x as i32`: the same 32 bits read as two's complement.
as_i32(x) ==
    IF x[1] >= SignBit THEN (x[1] - Half) * Half + x[2]
                       ELSE x[1] * Half + x[2]

(* ------------------------------ inputs --------------------------------- *)

\* StaticName values used as function names (map keys).
FunctionNames == {"test-function1", "test-function2"}

\* StaticName values used as worker uuids.
WorkerUuids == {"test-worker1", "test-worker3"}

\* timeout values (ms).
Timeouts == {10000}

\* <<traffic, max_concurrency>> pairs: a free slot (0 of 1, the values of
\* the tests), a saturated worker (1 of 1), a spare capacity of 2^31
\* (0 of 2^31) and a load above the capacity (1 of 0).
Loads ==
    {<<u32(0, 0), u32(0, 1)>>, <<u32(0, 1), u32(0, 1)>>,
     <<u32(0, 0), u32(SignBit, 0)>>, <<u32(0, 1), u32(0, 0)>>}

\* struct FunctionWorkerConfig.
FunctionWorkerConfig ==
    {[function_name |-> n, worker_uuid |-> w, timeout |-> t,
      traffic |-> l[1], max_concurrency |-> l[2]] :
        n \in FunctionNames, w \in WorkerUuids, t \in Timeouts, l \in Loads}

\* The records a caller passes with the key function_name: any record that
\* names the key, and the records of test-worker1 that name another function.
ConfigsFor(function_name) ==
    {c \in FunctionWorkerConfig :
        c.function_name = function_name \/ c.worker_uuid = "test-worker1"}

\* FunctionWorkerConfig::copy: a new value with every field cloned.
copy(self) ==
    [function_name   |-> self.function_name,
     worker_uuid     |-> self.worker_uuid,
     timeout         |-> self.timeout,
     traffic         |-> self.traffic,
     max_concurrency |-> self.max_concurrency]

(* --------------------------- the comparator ---------------------------- *)

\* (max_concurrency - traffic) as i32, lines 99-100, without overflow check.
traffic_ratio(a) == as_i32(wrapping_sub(a.max_concurrency, a.traffic))

\* The closure handed to sort_by: b_traffic_ratio.cmp(&a_traffic_ratio).
compare(a, b) ==
    LET a_traffic_ratio == traffic_ratio(a)
        b_traffic_ratio == traffic_ratio(b)
    IN  IF b_traffic_ratio < a_traffic_ratio THEN "Less"
        ELSE IF b_traffic_ratio = a_traffic_ratio THEN "Equal"
        ELSE "Greater"

\* The closure panics on a record of v when overflow checks are compiled in.
compare_panics(v) ==
    \E i \in 1..Len(v) : sub_overflows(v[i].max_concurrency, v[i].traffic)

\* insert_tail writing x over an element that compares Equal to it.
insert_tail_overwrite(s, x) ==
    LET before == {i \in 1..Len(s) : compare(s[i], x) # "Greater"}
        k      == Cardinality(before)
    IN  IF k >= 1 /\ compare(s[k], x) = "Equal"
        THEN SubSeq(s, 1, k - 1) \o <<x>> \o SubSeq(s, k + 1, Len(s))
        ELSE SubSeq(s, 1, k) \o <<x>> \o SubSeq(s, k + 1, Len(s))

\* x put into the sorted sequence s after every element that is not
\* Greater than it: the place a stable sort gives the last element.
insert_tail(s, x) ==
    LET before == {i \in 1..Len(s) : compare(s[i], x) # "Greater"}
        k      == Cardinality(before)
    IN  SubSeq(s, 1, k) \o <<x>> \o SubSeq(s, k + 1, Len(s))

\* slice::sort_by with the closure above: a stable sort.
RECURSIVE sort_by(_)
sort_by(v) ==
    IF Len(v) = 0 THEN <<>>
    ELSE insert_tail(sort_by(SubSeq(v, 1, Len(v) - 1)), v[Len(v)])

\* Every order of the elements of v (what a sort leaves when it unwinds).
Orders(v) ==
    {[i \in 1..Len(v) |-> v[p[i]]] : p \in Permutations(1..Len(v))}

(* ------------------------------- state --------------------------------- *)

VARIABLES
    map,              \* FunctionWorkerMap.map: key -> Vec<FunctionWorkerConfig>
    overflow_checks,  \* the build: TRUE when integer overflow panics
    panicked,         \* a call has panicked (the thread unwinds)
    last_call,        \* the call made last and its arguments
    result,           \* what get_least_busy_worker returned last
    registered        \* history: per key, the records passed to insert_worker_config

vars == <<map, overflow_checks, panicked, last_call, result, registered>>

\* FunctionWorkerMap::new, before any call.
Init ==
    /\ map = [f \in {} |-> <<>>]
    /\ overflow_checks \in BOOLEAN
    /\ panicked = FALSE
    /\ last_call = [op |-> "new"]
    /\ result = [tag |-> "None"]
    /\ registered = [f \in FunctionNames |-> <<>>]

(* ------------------------ insert_worker_config ------------------------- *)

\* map_with on a fresh map: the other keys are lost.
map_with_fresh(m, key, v) == [f \in {key} |-> v]

\* m with the vector v stored under key.
map_with(m, key, v) ==
    [f \in DOMAIN m \cup {key} |-> IF f = key THEN v ELSE m[f]]

\* insert_worker_config creating the vector of a new key without the push
\* of line 87.
insert_worker_config_no_push(m, function_name, worker_config, checks) ==
    IF function_name \notin DOMAIN m
    THEN {[map |-> map_with(m, function_name, <<>>), panicked |-> FALSE]}
    ELSE LET pushed == Append(m[function_name], worker_config)
         IN  IF checks /\ compare_panics(pushed)
             THEN {[map |-> map_with(m, function_name, o), panicked |-> TRUE]
                     : o \in Orders(pushed)}
             ELSE {[map |-> map_with(m, function_name, sort_by(pushed)),
                    panicked |-> FALSE]}

\* The outcomes of insert_worker_config(function_name, worker_config) on
\* the map m: the new map, and whether the call panicked.
insert_worker_config(m, function_name, worker_config, checks) ==
    IF function_name \notin DOMAIN m
    THEN {[map |-> map_with(m, function_name, <<worker_config>>),
           panicked |-> FALSE]}
    ELSE LET pushed == Append(m[function_name], worker_config)
         IN  IF checks /\ compare_panics(pushed)
             THEN {[map |-> map_with(m, function_name, o), panicked |-> TRUE]
                     : o \in Orders(pushed)}
             ELSE {[map |-> map_with(m, function_name, sort_by(pushed)),
                    panicked |-> FALSE]}

RECURSIVE SumLen(_, _)
SumLen(h, S) ==
    IF S = {} THEN 0
    ELSE LET f == CHOOSE g \in S : TRUE
         IN  Len(h[f]) + SumLen(h, S \ {f})

\* Number of insert_worker_config calls made so far.
Inserts == SumLen(registered, FunctionNames)

InsertWorkerConfig(function_name, worker_config) ==
    /\ ~panicked
    /\ Inserts < MaxInserts
    /\ \E out \in insert_worker_config(map, function_name, worker_config,
                                       overflow_checks) :
          /\ map' = out.map
          /\ panicked' = out.panicked
    /\ last_call' = [op |-> "insert_worker_config",
                     function_name |-> function_name]
    /\ registered' = [registered EXCEPT
                        ![function_name] = Append(@, worker_config)]
    /\ UNCHANGED <<overflow_checks, result>>

(* ------------------------ get_least_busy_worker ------------------------ *)

\* get_least_busy_worker with the two error codes exchanged.
get_least_busy_worker_codes_swapped(m, function_name) ==
    IF function_name \notin DOMAIN m
    THEN [ret |-> [tag |-> "Err", error_code |-> 2], map |-> m]
    ELSE IF Len(m[function_name]) = 0
    THEN [ret |-> [tag |-> "Err", error_code |-> 1], map |-> m]
    ELSE [ret |-> [tag |-> "Ok", value |-> copy(m[function_name][1])],
          map |-> m]

\* get_least_busy_worker moving the first record out of the vector
\* (remove(0)) instead of copying it.
get_least_busy_worker_remove(m, function_name) ==
    IF function_name \notin DOMAIN m
    THEN [ret |-> [tag |-> "Err", error_code |-> 1], map |-> m]
    ELSE IF Len(m[function_name]) = 0
    THEN [ret |-> [tag |-> "Err", error_code |-> 2], map |-> m]
    ELSE [ret |-> [tag |-> "Ok", value |-> copy(m[function_name][1])],
          map |-> [m EXCEPT ![function_name] = Tail(@)]]

\* get_least_busy_worker(function_name) on the map m: the value returned
\* and the map the call leaves (self is borrowed mutably).
get_least_busy_worker(m, function_name) ==
    IF function_name \notin DOMAIN m
    THEN [ret |-> [tag |-> "Err", error_code |-> 1], map |-> m]
    ELSE IF Len(m[function_name]) = 0
    THEN [ret |-> [tag |-> "Err", error_code |-> 2], map |-> m]
    ELSE [ret |-> [tag |-> "Ok", value |-> copy(m[function_name][1])],
          map |-> m]

GetLeastBusyWorker(function_name) ==
    /\ ~panicked
    /\ LET out == get_least_busy_worker(map, function_name)
       IN  /\ result' = out.ret
           /\ map' = out.map
    /\ last_call' = [op |-> "get_least_busy_worker",
                     function_name |-> function_name]
    /\ UNCHANGED <<overflow_checks, panicked, registered>>

(* --------------------------- specification ----------------------------- *)

Next ==
    \/ \E f \in FunctionNames : \E c \in ConfigsFor(f) :
          InsertWorkerConfig(f, c)
    \/ \E f \in FunctionNames : GetLeastBusyWorker(f)

Spec == Init /\ [][Next]_vars

(* ----------------- insert_worker_config, step by step ------------------ *)

\* A second specification runs insert_worker_config in its two steps, the
\* push of line 91 and the sort_by of lines 94-102, so that the state between
\* them exists.  While the call runs, last_call carries the field `at`.

\* borrowed with the exclusive borrow not enforced.
borrowed_unchecked(call) == FALSE

\* self is mutably borrowed by the call: insert_worker_config and
\* get_least_busy_worker both take &mut self, so neither can start while
\* a call on the same map is running.
borrowed(call) == "at" \in DOMAIN call

\* insert_worker_config up to and including the push: the whole call for a
\* new key (lines 86-88), the push for a key that has a vector (line 91).
InsertBegin(function_name, worker_config) ==
    /\ ~panicked
    /\ ~borrowed(last_call)
    /\ Inserts < MaxInserts
    /\ IF function_name \notin DOMAIN map
       THEN /\ map' = map_with(map, function_name, <<worker_config>>)
            /\ last_call' = [op |-> "insert_worker_config",
                             function_name |-> function_name]
       ELSE /\ map' = map_with(map, function_name,
                               Append(map[function_name], worker_config))
            /\ last_call' = [op |-> "insert_worker_config",
                             function_name |-> function_name,
                             at |-> "sort_by"]
    /\ registered' = [registered EXCEPT
                        ![function_name] = Append(@, worker_config)]
    /\ UNCHANGED <<overflow_checks, panicked, result>>

\* The sort_by of the running insert_worker_config, and its return.
InsertSort ==
    /\ ~panicked
    /\ "at" \in DOMAIN last_call
    /\ LET function_name == last_call.function_name
           pushed        == map[function_name]
       IN  /\ IF overflow_checks /\ compare_panics(pushed)
              THEN /\ map' \in {map_with(map, function_name, o) :
                                  o \in Orders(pushed)}
                   /\ panicked' = TRUE
              ELSE /\ map' = map_with(map, function_name, sort_by(pushed))
                   /\ panicked' = FALSE
           /\ last_call' = [op |-> "insert_worker_config",
                            function_name |-> function_name]
    /\ UNCHANGED <<overflow_checks, result, registered>>

\* get_least_busy_worker, called when no call is running.
GetExclusive(function_name) ==
    /\ ~borrowed(last_call)
    /\ GetLeastBusyWorker(function_name)

\* The records a caller passes with the key function_name in the
\* step-by-step specification: those that name the key.
OwnConfigs(function_name) ==
    {c \in FunctionWorkerConfig : c.function_name = function_name}

NextSteps ==
    \/ \E f \in FunctionNames : \E c \in OwnConfigs(f) : InsertBegin(f, c)
    \/ InsertSort
    \/ \E f \in FunctionNames : GetExclusive(f)

SpecSteps == Init /\ [][NextSteps]_vars

(* ------------------------ static_name_from_str ------------------------- *)

\* The length of a StaticName: type StaticName = [u8; 64].
StaticNameLen == 64

\* The byte 'a'.
ByteA == 97

\* The strings given to static_name_from_str, as sequences of bytes: k bytes
\* 'a' followed by j NUL bytes, of at most MaxStrLen bytes in all.
Strings ==
    UNION {{[i \in 1..n |-> IF i <= k THEN ByteA ELSE 0] : k \in 0..n} :
              n \in 0..MaxStrLen}

\* static_name_from_str(s): name starts as 64 zero bytes and byte i of s is
\* written to name[i]; the write panics (index out of bounds) once i
\* reaches 64, in every build.
static_name_from_str(s) ==
    IF Len(s) > StaticNameLen
    THEN [tag |-> "Panic"]
    ELSE [tag |-> "Ok",
          value |-> [i \in 1..StaticNameLen |->
                        IF i <= Len(s) THEN s[i] ELSE 0]]

\* One call of static_name_from_str, the only call of the behaviour.
StaticNameFromStr(s) ==
    /\ last_call.op = "new"
    /\ LET out == static_name_from_str(s)
       IN  /\ panicked' = (out.tag = "Panic")
           /\ result' = IF out.tag = "Panic" THEN result ELSE out
    /\ last_call' = [op |-> "static_name_from_str", s |-> s]
    /\ UNCHANGED <<map, overflow_checks, registered>>

NextName == \E s \in Strings : StaticNameFromStr(s)

SpecName == Init /\ [][NextName]_vars

(* ------------------------- notions of the claims ----------------------- *)

\* The call made last is get_least_busy_worker(f).
Returned(f) ==
    last_call = [op |-> "get_least_busy_worker", function_name |-> f]

\* traffic <= max_concurrency.
WithinCapacity(c) == u32_le(c.traffic, c.max_concurrency)

\* The spare capacity max_concurrency - traffic of a is at least that of b,
\* as numbers: a load above the capacity leaves a negative spare capacity.
SpareGe(a, b) ==
    IF WithinCapacity(a)
    THEN ~WithinCapacity(b)
         \/ u32_le(wrapping_sub(b.max_concurrency, b.traffic),
                   wrapping_sub(a.max_concurrency, a.traffic))
    ELSE /\ ~WithinCapacity(b)
         /\ u32_le(wrapping_sub(a.traffic, a.max_concurrency),
                   wrapping_sub(b.traffic, b.max_concurrency))

\* The positions of the records of h with the greatest spare capacity.
Best(h) == {i \in 1..Len(h) : \A j \in 1..Len(h) : SpareGe(h[i], h[j])}

\* The least element of a non-empty set of numbers.
Min(S) == CHOOSE i \in S : \A j \in S : i <= j

\* The greatest element of a non-empty set of numbers.
Max(S) == CHOOSE i \in S : \A j \in S : j <= i

(* -------------------------------- C1 ----------------------------------- *)

\* C1: when every record registered for F has traffic <= max_concurrency,
\* get_least_busy_worker(F) returns a record whose spare capacity is the
\* greatest of the records registered for F.
C1_GreatestSpare ==
    \A f \in FunctionNames :
        (/\ Returned(f)
         /\ registered[f] # <<>>
         /\ \A i \in 1..Len(registered[f]) : WithinCapacity(registered[f][i]))
        => /\ result.tag = "Ok"
           /\ \A i \in 1..Len(registered[f]) :
                 SpareGe(result.value, registered[f][i])

(* -------------------------------- C2 ----------------------------------- *)

\* C2: when several records of F share the greatest spare capacity,
\* get_least_busy_worker(F) returns the one of them registered first.
C2_EarliestOfBest ==
    \A f \in FunctionNames :
        (Returned(f) /\ Cardinality(Best(registered[f])) >= 2)
        => /\ result.tag = "Ok"
           /\ result.value = registered[f][Min(Best(registered[f]))]

(* -------------------------------- C3 ----------------------------------- *)

\* C3: no function's sequence holds two records with the same worker_uuid.
C3_NoDuplicateWorker ==
    \A f \in DOMAIN map : \A i, j \in 1..Len(map[f]) :
        map[f][i].worker_uuid = map[f][j].worker_uuid => i = j

(* -------------------------------- C4 ----------------------------------- *)

\* C4: a record returned by get_least_busy_worker(F) carries the traffic and
\* max_concurrency registered last for its worker under F.
C4_LatestValues ==
    \A f \in FunctionNames :
        (Returned(f) /\ result.tag = "Ok")
        => LET h    == registered[f]
               mine == {i \in 1..Len(h) :
                          h[i].worker_uuid = result.value.worker_uuid}
           IN  /\ mine # {}
               /\ result.value.traffic = h[Max(mine)].traffic
               /\ result.value.max_concurrency = h[Max(mine)].max_concurrency

(* -------------------------------- C5 ----------------------------------- *)

\* C5: get_least_busy_worker(F) returns an error when every record
\* registered for F is saturated (traffic = max_concurrency).
C5_SaturatedIsError ==
    \A f \in FunctionNames :
        (/\ Returned(f)
         /\ registered[f] # <<>>
         /\ \A i \in 1..Len(registered[f]) :
               registered[f][i].traffic = registered[f][i].max_concurrency)
        => result.tag = "Err"

(* -------------------------------- C6 ----------------------------------- *)

\* C6: get_least_busy_worker(F) returns the error with error_code 1 exactly
\* when insert_worker_config was never called with the key F and Ok
\* otherwise, and a call that returns an error leaves the map as it was.
C6_UnknownFunction ==
    [][\A f \in FunctionNames :
          (last_call' = [op |-> "get_least_busy_worker", function_name |-> f])
          => /\ (result' = [tag |-> "Err", error_code |-> 1])
                    <=> (registered'[f] = <<>>)
             /\ registered'[f] # <<>> => result'.tag = "Ok"
             /\ result'.tag = "Err" => map' = map]_vars

\* C6 witness: the error is returned for a function never registered while
\* another function has a record.
C6_Witness ==
    \E f \in FunctionNames, g \in DOMAIN map :
        /\ Returned(f)
        /\ result = [tag |-> "Err", error_code |-> 1]
        /\ registered[f] = <<>>
        /\ g # f

(* -------------------------------- C7 ----------------------------------- *)

\* C7: no record with max_concurrency = 0 is stored in any sequence.
C7_NoZeroCapacity ==
    \A f \in DOMAIN map : \A i \in 1..Len(map[f]) :
        map[f][i].max_concurrency # u32(0, 0)

(* -------------------------------- C8 ----------------------------------- *)

\* C8: every record stored under the key F has function_name = F.
C8_NameIsKey ==
    \A f \in DOMAIN map : \A i \in 1..Len(map[f]) :
        map[f][i].function_name = f

(* -------------------------------- C9 ----------------------------------- *)

\* C9: every record held by the map has traffic <= max_concurrency.
C9_LoadWithinCapacity ==
    \A f \in DOMAIN map : \A i \in 1..Len(map[f]) :
        WithinCapacity(map[f][i])

(* -------------------------------- C10 ---------------------------------- *)

\* C10: get_least_busy_worker leaves the map as it was, on Ok and on Err;
\* the record it returns equals the first record of the sequence and a later
\* insert_worker_config leaves the returned value as it was; a second call
\* for the same function made right after the first returns the same.
C10_ReadOnlyCopy ==
    [][/\ \A f \in FunctionNames :
            (last_call' = [op |-> "get_least_busy_worker",
                           function_name |-> f])
            => /\ map' = map
               /\ result'.tag = "Ok" => result'.value = map[f][1]
               /\ get_least_busy_worker(map', f).ret = result'
       /\ last_call'.op = "insert_worker_config" => result' = result]_vars

\* C10 witness: a record was returned for a function and a later
\* insert_worker_config put another record first in that function's
\* sequence; the returned value is still the record registered before.
C10_Witness ==
    /\ last_call.op = "insert_worker_config"
    /\ result.tag = "Ok"
    /\ LET f == last_call.function_name
       IN  /\ Len(registered[f]) >= 2
           /\ result.value = registered[f][1]
           /\ map[f][1] # result.value

(* -------------------------------- C11 ---------------------------------- *)

\* C11: insert_worker_config(F, c) changes only the sequence stored under F:
\* the sequence of every other key is the same before and after the call, and
\* no key other than F is added or removed.
C11_OnlyOwnSequence ==
    [][\A f \in FunctionNames :
          (last_call' = [op |-> "insert_worker_config", function_name |-> f])
          => /\ DOMAIN map' = DOMAIN map \cup {f}
             /\ \A g \in DOMAIN map \ {f} : map'[g] = map[g]]_vars

\* C11 witness: an insert_worker_config for F has re-ordered the sequence of
\* F while another function holds a record.
C11_Witness ==
    \E f \in DOMAIN map, g \in DOMAIN map :
        /\ g # f
        /\ last_call = [op |-> "insert_worker_config", function_name |-> f]
        /\ ~panicked
        /\ map[f] # registered[f]
        /\ map[g] = registered[g]

(* -------------------------------- C12 ---------------------------------- *)

\* The number of positions of the sequence h that hold c.
Count(h, c) == Cardinality({i \in 1..Len(h) : h[i] = c})

\* s is a permutation of h.
IsPermutation(s, h) ==
    /\ Len(s) = Len(h)
    /\ \A i \in 1..Len(h) : Count(s, h[i]) = Count(h, h[i])

\* The records of h have pairwise distinct worker_uuid.
DistinctWorkers(h) ==
    \A i, j \in 1..Len(h) : h[i].worker_uuid = h[j].worker_uuid => i = j

\* C12: the sequence stored under each key F is a permutation of the records
\* inserted with the key F, each stored with its five fields as inserted, and
\* a key is present exactly when a record was inserted for it.  This holds
\* of every sequence of calls, those with pairwise distinct
\* (function, worker) pairs among them.
C12_PermutationOfInserted ==
    \A f \in FunctionNames :
        /\ f \in DOMAIN map <=> registered[f] # <<>>
        /\ f \in DOMAIN map => IsPermutation(map[f], registered[f])

\* C12 witness: distinct (function, worker) pairs, two records under one key
\* that the sort has exchanged and one record under the other key.
C12_Witness ==
    \E f \in DOMAIN map, g \in DOMAIN map :
        /\ g # f
        /\ ~panicked
        /\ DistinctWorkers(registered[f])
        /\ Len(registered[f]) = 2
        /\ map[f] = <<registered[f][2], registered[f][1]>>
        /\ map[f][1] # map[f][2]
        /\ Len(map[g]) = 1

(* -------------------------------- C13 ---------------------------------- *)

\* C13: get_least_busy_worker(F) never reads the sequence of F between the
\* push and the sort of an insert_worker_config: the sequence it reads is in
\* the order sort_by leaves; and no insert is lost: at every moment the
\* sequence of each key holds exactly the records inserted for it.
C13_NoHalfAppliedInsert ==
    [][/\ \A f \in FunctionNames :
            (last_call' = [op |-> "get_least_busy_worker",
                           function_name |-> f] /\ f \in DOMAIN map)
            => map[f] = sort_by(map[f])
       /\ \A f \in DOMAIN map' : IsPermutation(map'[f], registered'[f])]_vars

\* C13 witness: an insert_worker_config for F is between its push and its
\* sort, the sequence of F is out of order, and a caller has read F before.
C13_Witness ==
    /\ "at" \in DOMAIN last_call
    /\ result.tag = "Ok"
    /\ result.value = map[last_call.function_name][1]
    /\ map[last_call.function_name] # sort_by(map[last_call.function_name])

(* -------------------------------- C14 ---------------------------------- *)

\* b is a with one more unit of traffic, within the capacity.
OneMoreDispatch(a, b) ==
    /\ b = [a EXCEPT !.traffic = b.traffic]
    /\ u32_lt(a.traffic, b.traffic)
    /\ wrapping_sub(b.traffic, a.traffic) = u32(0, 1)
    /\ WithinCapacity(b)

\* C14: with two workers W1 and W2 of equal capacity and load registered in
\* that order for F, once a dispatch to W1 is recorded (W1 registered with its
\* load raised by one, the only operation that carries a load into the map),
\* get_least_busy_worker(F) is computed from the raised load and returns W2.
C14_DispatchLowersRank ==
    \A f \in FunctionNames :
        LET h == registered[f]
        IN  (/\ Returned(f)
             /\ Len(h) = 3
             /\ h[1].worker_uuid # h[2].worker_uuid
             /\ h[1].traffic = h[2].traffic
             /\ h[1].max_concurrency = h[2].max_concurrency
             /\ OneMoreDispatch(h[1], h[3]))
            => result = [tag |-> "Ok", value |-> h[2]]

(* -------------------------------- C15 ---------------------------------- *)

\* C15: when every record has traffic <= max_concurrency, each function's
\* sequence is ordered by non-increasing spare capacity.
C15_SortedBySpare ==
    \A f \in DOMAIN map :
        (\A i \in 1..Len(map[f]) : WithinCapacity(map[f][i]))
        => \A i \in 1..(Len(map[f]) - 1) : SpareGe(map[f][i], map[f][i + 1])

(* -------------------------------- C16 ---------------------------------- *)

\* C16: for the records the comparator is given (those of a sequence that
\* sort_by has run on) with traffic <= max_concurrency, the value it
\* computes is not negative and it orders two records as their unsigned
\* spare capacities do.
C16_RatioIsSpare ==
    \A f \in DOMAIN map : \A i, j \in 1..Len(map[f]) :
        LET a == map[f][i]
            b == map[f][j]
        IN  (Len(map[f]) >= 2 /\ WithinCapacity(a) /\ WithinCapacity(b))
            => /\ traffic_ratio(a) >= 0
               /\ compare(a, b) = "Less" <=> ~SpareGe(b, a)

(* -------------------------------- C17 ---------------------------------- *)

\* C17: no call panics, whatever record is inserted.
C17_NoPanic == ~panicked

(* -------------------------------- C18 ---------------------------------- *)

\* C18: every key of the map has a sequence that is not empty, and the only
\* error get_least_busy_worker returns has error_code 1.
C18_NoEmptySequence ==
    /\ \A f \in DOMAIN map : Len(map[f]) >= 1
    /\ result.tag = "Err" => result.error_code = 1

\* C18 witness: get_least_busy_worker has passed the length check of a
\* key's sequence and returned its record, and has returned error_code 1
\* for no key: the sequence read holds the single record of a first insert.
C18_Witness ==
    \E f \in DOMAIN map :
        /\ Returned(f)
        /\ Len(map[f]) = 1
        /\ result = [tag |-> "Ok", value |-> map[f][1]]
        /\ DOMAIN map = {f}

(* -------------------------------- C19 ---------------------------------- *)

\* C19: static_name_from_str faults on no string; for a string of at most 64
\* bytes it returns the bytes of the string followed by zero bytes; and no
\* other string of at most 64 bytes yields the same name.
C19_FaithfulName ==
    last_call.op = "static_name_from_str"
    => LET s == last_call.s
       IN  /\ ~panicked
           /\ Len(s) <= StaticNameLen
                => /\ result.tag = "Ok"
                   /\ \A i \in 1..StaticNameLen :
                         result.value[i] = IF i <= Len(s) THEN s[i] ELSE 0
                   /\ \A t \in Strings :
                         (Len(t) <= StaticNameLen /\ t # s)
                         => static_name_from_str(t).value # result.value

====
